---- MODULE Spec2Model ----
(***************************************************************************)
(* The HIV ligand-screening notebook (ML_LBVS_playground.ipynb and its     *)
(* earlier variant) as a state machine.  A run executes the code cells in  *)
(* notebook order, one statement per step; an exception ends the run.      *)
(* A second specification also runs the plotting cell before the counting  *)
(* cell, the order the recorded execution counts (40, 61) show.            *)
(*                                                                         *)
(* The input file is a sequence of lines, each line the sequence of its    *)
(* comma-separated fields.  The files considered are rectangular (every    *)
(* line has as many fields as the first one).                              *)
(***************************************************************************)
EXTENDS Integers, Sequences, FiniteSets, TLC

VARIABLES
    variant,    \* which notebook runs: "named" or "unnamed"
    fs,         \* the file at 'data/molecules_HIV.csv'
    pc,         \* index of the next statement of Program
    err,        \* "none", or the name of the exception that ended the run
    hiv,        \* the notebook's variable hiv
    headOut,    \* Out[] of the loading cell: the value of hiv.head()
    countOut,   \* Out[] of the counting cell: the value of len(...)
    chart,      \* the current matplotlib figure
    reads       \* how many times the input file has been opened

vars == <<variant, fs, pc, err, hiv, headOut, countOut, chart, reads>>

----------------------------------------------------------------------------
(* Bounds of the model *)

MaxRows == 6

----------------------------------------------------------------------------
(* Values of a table cell: pandas keeps an int64 column as integers and an *)
(* object column as strings.                                               *)

IntV(i) == [t |-> "int", i |-> i, s |-> ""]
StrV(s) == [t |-> "str", i |-> 0, s |-> s]

Range(f) == {f[i] : i \in DOMAIN f}

(* Integer literals occurring in the files considered. *)
IsIntLiteral(s) == s \in {"0", "1", "2"}

(* Mutant: every non-zero literal is read as 1. *)
IntOfLiteral_Clamp(s) ==
    CASE s = "0" -> 0
      [] s = "1" -> 1
      [] s = "2" -> 1

IntOfLiteral(s) ==
    CASE s = "0" -> 0
      [] s = "1" -> 1
      [] s = "2" -> 2

----------------------------------------------------------------------------
(* The input files *)

HeaderLabel == <<"Smiles", "Experimental activity", "Label">>
HeaderHIVActive == <<"Smiles", "Experimental activity", "HIV_active">>
HeaderNoLabel == <<"Smiles", "Experimental activity">>

DataRows ==
    { <<"CCO", "CI", "0">>,
      <<"CN", "CA", "1">>,
      <<"CS", "CM", "2">> }

RowSeqs == UNION {[1..n -> DataRows] : n \in 0..MaxRows}

Truncate(rows, w) == [i \in 1..Len(rows) |-> SubSeq(rows[i], 1, w)]

NoFile == [exists |-> FALSE, lines |-> <<>>]

Files ==
    {NoFile}
    \cup {[exists |-> TRUE, lines |-> rows] : rows \in RowSeqs}
    \cup {[exists |-> TRUE, lines |-> <<h>> \o rows] :
             h \in {HeaderLabel, HeaderHIVActive}, rows \in RowSeqs}
    \cup {[exists |-> TRUE, lines |-> <<HeaderNoLabel>> \o Truncate(rows, 2)] :
             rows \in RowSeqs}

----------------------------------------------------------------------------
(* pandas *)

Undef == [defined |-> FALSE, columns |-> <<>>, rows |-> <<>>]

DataFrame(columns, rows) == [defined |-> TRUE, columns |-> columns, rows |-> rows]

(* dtype inference of one column: int64 when the column is not empty and   *)
(* every field is an integer literal, object (strings) otherwise.          *)
ColumnIsInt(lines, j) ==
    /\ Len(lines) > 0
    /\ \A i \in 1..Len(lines) : IsIntLiteral(lines[i][j])

ParseField(lines, i, j) ==
    IF ColumnIsInt(lines, j) THEN IntV(IntOfLiteral(lines[i][j]))
                             ELSE StrV(lines[i][j])

(* Mutant: the rows come out in reverse file order. *)
ParseRows_Reversed(lines) ==
    [i \in 1..Len(lines) |->
        [j \in 1..Len(lines[Len(lines) + 1 - i]) |->
            ParseField(lines, Len(lines) + 1 - i, j)]]

ParseRows(lines) ==
    [i \in 1..Len(lines) |-> [j \in 1..Len(lines[i]) |-> ParseField(lines, i, j)]]

(* Mutant: header=None, every line is a record and the columns are numbered. *)
read_csv_HeaderNone(file) ==
    IF ~file.exists THEN [err |-> "FileNotFoundError", df |-> Undef]
    ELSE IF Len(file.lines) = 0 THEN [err |-> "EmptyDataError", df |-> Undef]
    ELSE [err |-> "none",
          df |-> DataFrame([j \in 1..Len(Head(file.lines)) |-> ToString(j - 1)],
                           ParseRows(file.lines))]

(* Mutant: a missing file is read as an empty table. *)
read_csv_MissingAsEmpty(file) ==
    IF ~file.exists \/ Len(file.lines) = 0
    THEN [err |-> "none", df |-> DataFrame(<<>>, <<>>)]
    ELSE [err |-> "none",
          df |-> DataFrame(Head(file.lines), ParseRows(Tail(file.lines)))]

(* Mutant: a file without any line is read as an empty table. *)
read_csv_EmptyAsTable(file) ==
    IF ~file.exists THEN [err |-> "FileNotFoundError", df |-> Undef]
    ELSE IF Len(file.lines) = 0 THEN [err |-> "none", df |-> DataFrame(<<>>, <<>>)]
    ELSE [err |-> "none",
          df |-> DataFrame(Head(file.lines), ParseRows(Tail(file.lines)))]

(* Mutant: only the first chunk of two records is returned. *)
read_csv_FirstChunk(file) ==
    IF ~file.exists THEN [err |-> "FileNotFoundError", df |-> Undef]
    ELSE IF Len(file.lines) = 0 THEN [err |-> "EmptyDataError", df |-> Undef]
    ELSE LET data == Tail(file.lines)
         IN [err |-> "none",
             df |-> DataFrame(Head(file.lines),
                              ParseRows(SubSeq(data, 1, IF Len(data) < 2 THEN Len(data) ELSE 2)))]

(* pd.read_csv(path) with its defaults: header='infer' takes the first     *)
(* line as the column names, whatever it holds.                            *)
read_csv(file) ==
    IF ~file.exists THEN [err |-> "FileNotFoundError", df |-> Undef]
    ELSE IF Len(file.lines) = 0 THEN [err |-> "EmptyDataError", df |-> Undef]
    ELSE [err |-> "none",
          df |-> DataFrame(Head(file.lines), ParseRows(Tail(file.lines)))]

(* Mutant: the last five rows instead of the first five. *)
head_LastRows(df) ==
    DataFrame(df.columns,
              SubSeq(df.rows, IF Len(df.rows) < 5 THEN 1 ELSE Len(df.rows) - 4, Len(df.rows)))

HeadDefault == 5

(* df.head(): the first n = 5 rows *)
head(df) ==
    DataFrame(df.columns,
              SubSeq(df.rows, 1, IF Len(df.rows) < HeadDefault
                                 THEN Len(df.rows) ELSE HeadDefault))

HasColumn(df, col) == col \in Range(df.columns)

ColIndex(df, col) ==
    CHOOSE j \in 1..Len(df.columns) :
        /\ df.columns[j] = col
        /\ \A k \in 1..(j - 1) : df.columns[k] # col

(* df[col]: the column as a sequence of values *)
Column(df, col) == [i \in 1..Len(df.rows) |-> df.rows[i][ColIndex(df, col)]]

(* Mutant: df[col] >= v on an integer column. *)
EqMask_GreaterEq(df, col, v) ==
    [i \in 1..Len(df.rows) |->
        LET x == Column(df, col)[i]
        IN IF x.t = "int" /\ v.t = "int" THEN x.i >= v.i ELSE x = v]

(* df[col] == v: the boolean mask *)
EqMask(df, col, v) == [i \in 1..Len(df.rows) |-> Column(df, col)[i] = v]

RECURSIVE SelectByMask(_, _)
SelectByMask(rows, mask) ==
    IF Len(rows) = 0 THEN <<>>
    ELSE IF Head(mask) THEN <<Head(rows)>> \o SelectByMask(Tail(rows), Tail(mask))
                       ELSE SelectByMask(Tail(rows), Tail(mask))

(* Mutant: the selection loses its last row. *)
BoolIndex_DropsLast(df, mask) ==
    LET sel == SelectByMask(df.rows, mask)
    IN DataFrame(df.columns, SubSeq(sel, 1, Len(sel) - 1))

(* df[mask]: the rows whose mask entry is True, in order *)
BoolIndex(df, mask) == DataFrame(df.columns, SelectByMask(df.rows, mask))

(* len(df) *)
len(df) == Len(df.rows)

----------------------------------------------------------------------------
(* seaborn / matplotlib *)

(* Mutant: no de-duplication, one category per row. *)
Unique_NoDedup(vals) == vals

RECURSIVE Unique(_)
Unique(vals) ==
    IF Len(vals) = 0 THEN <<>>
    ELSE LET rest == Unique(SubSeq(vals, 1, Len(vals) - 1))
             last == vals[Len(vals)]
         IN IF last \in Range(rest) THEN rest ELSE Append(rest, last)

RECURSIVE InsertSorted(_, _)
InsertSorted(v, sorted) ==
    IF Len(sorted) = 0 THEN <<v>>
    ELSE IF v.i <= Head(sorted).i THEN <<v>> \o sorted
    ELSE <<Head(sorted)>> \o InsertSorted(v, Tail(sorted))

RECURSIVE SortInts(_)
SortInts(vals) ==
    IF Len(vals) = 0 THEN <<>> ELSE InsertSorted(Head(vals), SortInts(Tail(vals)))

(* Mutant: order=[0, 1], only the two expected classes get a bar. *)
CategoricalOrder_BinaryOnly(vals) ==
    SelectSeq(<<IntV(0), IntV(1)>>, LAMBDA c : c \in Range(vals))

(* categorical_order: the distinct values in order of appearance, sorted   *)
(* when the column is numeric.                                             *)
CategoricalOrder(vals) ==
    LET u == Unique(vals)
    IN IF \A k \in 1..Len(u) : u[k].t = "int" THEN SortInts(u) ELSE u

RECURSIVE CountOccurrences(_, _)
CountOccurrences(vals, v) ==
    IF Len(vals) = 0 THEN 0
    ELSE (IF Head(vals) = v THEN 1 ELSE 0) + CountOccurrences(Tail(vals), v)

(* Mutant: each bar also counts the rows of the categories before it. *)
CountplotBars_Cumulative(df, x) ==
    LET vals == Column(df, x)
        cats == CategoricalOrder(vals)
    IN [k \in 1..Len(cats) |->
           [cat |-> cats[k],
            height |-> Cardinality({i \in 1..Len(vals) :
                                       \E m \in 1..k : vals[i] = cats[m]})]]

(* The bars sns.countplot draws for column x of df. *)
CountplotBars(df, x) ==
    LET vals == Column(df, x)
        cats == CategoricalOrder(vals)
    IN [k \in 1..Len(cats) |->
           [cat |-> cats[k], height |-> CountOccurrences(vals, cats[k])]]

NoChart == [drawn |-> FALSE, bars |-> <<>>, xlabel |-> "", ylabel |-> "", shown |-> FALSE]

----------------------------------------------------------------------------
(* The notebooks *)

Variants == {"named", "unnamed"}

(* The named notebook with the cells run in either order: in notebook      *)
(* order, or with the plotting cell before the counting cell.              *)
Orders == {"named", "named_plot_first"}

(* Mutant: the preview is asked for before the table is loaded. *)
Program_HeadFirst(v) ==
    CASE v = "named" ->
           <<"import", "head", "read_csv", "count", "countplot", "ylabel", "xlabel", "show">>
      [] v = "unnamed" ->
           <<"import", "head", "read_csv", "countplot", "ylabel", "xlabel", "show">>
      [] v = "named_plot_first" ->
           <<"import", "head", "read_csv", "countplot", "ylabel", "xlabel", "show", "count">>

(* The statements of the code cells, in the order they run. *)
Program(v) ==
    CASE v = "named" ->
           <<"import", "read_csv", "head", "count", "countplot", "ylabel", "xlabel", "show">>
      [] v = "unnamed" ->
           <<"import", "read_csv", "head", "countplot", "ylabel", "xlabel", "show">>
      [] v = "named_plot_first" ->
           <<"import", "read_csv", "head", "countplot", "ylabel", "xlabel", "show", "count">>

(* Mutant: both notebooks plot the column 'Label'. *)
PlotColumn_AlwaysLabel(v) == "Label"

(* The column the count plot is drawn over. *)
PlotColumn(v) == IF v = "unnamed" THEN "HIV_active" ELSE "Label"

CountColumn == "Label"
CountValue == IntV(1)

Running == err = "none" /\ pc <= Len(Program(variant))
At(stmt) == Running /\ Program(variant)[pc] = stmt
Done == err = "none" /\ pc = Len(Program(variant)) + 1

(* The exceptions the statements raise. *)
Errors == {"FileNotFoundError", "EmptyDataError", "KeyError", "ValueError"}

TypeOK ==
    /\ variant \in Variants \cup Orders
    /\ fs \in Files
    /\ reads \in 0..1
    /\ pc \in 1..(Len(Program(variant)) + 1)
    /\ err \in {"none"} \cup Errors
    /\ hiv.defined \in BOOLEAN
    /\ (~hiv.defined => hiv = Undef)
    /\ \A i \in 1..Len(hiv.rows) : Len(hiv.rows[i]) = Len(hiv.columns)
    /\ headOut.defined \in BOOLEAN
    /\ countOut.set \in BOOLEAN
    /\ countOut.n \in 0..MaxRows
    /\ chart.drawn \in BOOLEAN
    /\ chart.shown \in BOOLEAN
    /\ \A k \in 1..Len(chart.bars) : chart.bars[k].height \in 1..MaxRows

Init ==
    /\ variant \in Variants
    /\ fs \in Files
    /\ pc = 1
    /\ err = "none"
    /\ hiv = Undef
    /\ headOut = Undef
    /\ countOut = [set |-> FALSE, n |-> 0]
    /\ chart = NoChart
    /\ reads = 0

(* The same, for the named notebook with its cells run in either order. *)
InitEitherOrder ==
    /\ variant \in Orders
    /\ fs \in Files
    /\ pc = 1
    /\ err = "none"
    /\ hiv = Undef
    /\ headOut = Undef
    /\ countOut = [set |-> FALSE, n |-> 0]
    /\ chart = NoChart
    /\ reads = 0

(* import rdkit, seaborn, pandas, matplotlib.pyplot *)
ImportStmt ==
    /\ At("import")
    /\ pc' = pc + 1
    /\ UNCHANGED <<variant, fs, reads, err, hiv, headOut, countOut, chart>>

(* Mutant: a failed load leaves an empty table behind. *)
ReadCsvStmt_PartialRecovery ==
    /\ At("read_csv")
    /\ LET r == read_csv(fs)
       IN IF r.err = "none"
          THEN /\ hiv' = r.df
               /\ pc' = pc + 1
               /\ err' = err
          ELSE /\ err' = r.err
               /\ hiv' = DataFrame(<<>>, <<>>)
               /\ UNCHANGED pc
    /\ reads' = reads + 1
    /\ UNCHANGED <<variant, fs, headOut, countOut, chart>>

(* Mutant: a failed load is tried a second time before the error is raised. *)
ReadCsvStmt_Retry ==
    /\ At("read_csv")
    /\ LET r == read_csv(fs)
       IN IF r.err = "none"
          THEN /\ hiv' = r.df
               /\ pc' = pc + 1
               /\ err' = err
               /\ reads' = reads + 1
          ELSE /\ err' = r.err
               /\ reads' = reads + 2
               /\ UNCHANGED <<hiv, pc>>
    /\ UNCHANGED <<variant, fs, headOut, countOut, chart>>

(* Mutant: the rows are shuffled without a seed after the load (any order   *)
(* may come out, here the file order or its reverse).                      *)
ReadCsvStmt_Shuffled ==
    /\ At("read_csv")
    /\ LET r == read_csv(fs)
       IN IF r.err = "none"
          THEN /\ hiv' \in {r.df,
                             DataFrame(r.df.columns,
                                       [i \in 1..Len(r.df.rows) |->
                                           r.df.rows[Len(r.df.rows) + 1 - i]])}
               /\ pc' = pc + 1
               /\ err' = err
          ELSE /\ err' = r.err
               /\ UNCHANGED <<hiv, pc>>
    /\ reads' = reads + 1
    /\ UNCHANGED <<variant, fs, headOut, countOut, chart>>

(* hiv = pd.read_csv('data/molecules_HIV.csv') *)
ReadCsvStmt ==
    /\ At("read_csv")
    /\ LET r == read_csv(fs)
       IN IF r.err = "none"
          THEN /\ hiv' = r.df
               /\ pc' = pc + 1
               /\ err' = err
          ELSE /\ err' = r.err
               /\ UNCHANGED <<hiv, pc>>
    /\ reads' = reads + 1
    /\ UNCHANGED <<variant, fs, headOut, countOut, chart>>

(* Mutant: hiv = hiv.head(), the preview overwrites the table. *)
HeadStmt_InPlace ==
    /\ At("head")
    /\ headOut' = head(hiv)
    /\ hiv' = head(hiv)
    /\ pc' = pc + 1
    /\ UNCHANGED <<variant, fs, reads, err, countOut, chart>>

(* hiv.head() *)
HeadStmt ==
    /\ At("head")
    /\ headOut' = head(hiv)
    /\ pc' = pc + 1
    /\ UNCHANGED <<variant, fs, reads, err, hiv, countOut, chart>>

(* Mutant: hiv = hiv[hiv["Label"]==1]; len(hiv), the filter overwrites the table. *)
CountStmt_FilterInPlace ==
    /\ At("count")
    /\ IF HasColumn(hiv, CountColumn)
       THEN /\ hiv' = BoolIndex(hiv, EqMask(hiv, CountColumn, CountValue))
            /\ countOut' = [set |-> TRUE, n |-> len(hiv')]
            /\ pc' = pc + 1
            /\ err' = err
       ELSE /\ err' = "KeyError"
            /\ UNCHANGED <<hiv, countOut, pc>>
    /\ UNCHANGED <<variant, fs, reads, headOut, chart>>

(* Mutant: an unknown column counts as no match instead of raising. *)
CountStmt_NoKeyCheck ==
    /\ At("count")
    /\ countOut' = [set |-> TRUE,
                    n |-> IF HasColumn(hiv, CountColumn)
                          THEN len(BoolIndex(hiv, EqMask(hiv, CountColumn, CountValue)))
                          ELSE 0]
    /\ pc' = pc + 1
    /\ UNCHANGED <<variant, fs, reads, err, hiv, headOut, chart>>

(* len(hiv[hiv["Label"]==1]) *)
CountStmt ==
    /\ At("count")
    /\ IF HasColumn(hiv, CountColumn)
       THEN /\ countOut' = [set |-> TRUE,
                            n |-> len(BoolIndex(hiv, EqMask(hiv, CountColumn, CountValue)))]
            /\ pc' = pc + 1
            /\ err' = err
       ELSE /\ err' = "KeyError"
            /\ UNCHANGED <<countOut, pc>>
    /\ UNCHANGED <<variant, fs, reads, hiv, headOut, chart>>

(* sns.countplot(data = hiv, x=..., orient='v') *)
CountplotStmt ==
    /\ At("countplot")
    /\ IF HasColumn(hiv, PlotColumn(variant))
       THEN /\ chart' = [drawn |-> TRUE,
                         bars |-> CountplotBars(hiv, PlotColumn(variant)),
                         xlabel |-> PlotColumn(variant),
                         ylabel |-> "count",
                         shown |-> FALSE]
            /\ pc' = pc + 1
            /\ err' = err
       ELSE /\ err' = "ValueError"
            /\ UNCHANGED <<chart, pc>>
    /\ UNCHANGED <<variant, fs, reads, hiv, headOut, countOut>>

(* plt.ylabel('Num of molecules') *)
YlabelStmt ==
    /\ At("ylabel")
    /\ chart' = [chart EXCEPT !.ylabel = "Num of molecules"]
    /\ pc' = pc + 1
    /\ UNCHANGED <<variant, fs, reads, err, hiv, headOut, countOut>>

(* Mutant: the x-axis text is given to plt.ylabel. *)
XlabelStmt_SetsY ==
    /\ At("xlabel")
    /\ chart' = [chart EXCEPT !.ylabel = "Class 0: inactives and Class 1: Actives"]
    /\ pc' = pc + 1
    /\ UNCHANGED <<variant, fs, reads, err, hiv, headOut, countOut>>

(* plt.xlabel('Class 0: inactives and Class 1: Actives') *)
XlabelStmt ==
    /\ At("xlabel")
    /\ chart' = [chart EXCEPT !.xlabel = "Class 0: inactives and Class 1: Actives"]
    /\ pc' = pc + 1
    /\ UNCHANGED <<variant, fs, reads, err, hiv, headOut, countOut>>

(* Mutant: plt.show() blocks and never returns. *)
ShowStmt_Blocks ==
    /\ At("show")
    /\ UNCHANGED vars

(* plt.show() *)
ShowStmt ==
    /\ At("show")
    /\ chart' = [chart EXCEPT !.shown = TRUE]
    /\ pc' = pc + 1
    /\ UNCHANGED <<variant, fs, reads, err, hiv, headOut, countOut>>

Next ==
    \/ ImportStmt
    \/ ReadCsvStmt
    \/ HeadStmt
    \/ CountStmt
    \/ CountplotStmt
    \/ YlabelStmt
    \/ XlabelStmt
    \/ ShowStmt

Spec == Init /\ [][Next]_vars

(* The kernel runs the next statement whenever there is one: no statement  *)
(* waits for input, a lock or another thread. Whether a run ends depends   *)
(* on which statements run and which raise, not on the number of rows, so  *)
(* the fair runs are taken over the files of at most MaxLinesFair lines.   *)
MaxLinesFair == 3

FairFiles == {f \in Files : Len(f.lines) <= MaxLinesFair}

InitFair ==
    /\ variant \in Variants
    /\ fs \in FairFiles
    /\ pc = 1
    /\ err = "none"
    /\ hiv = Undef
    /\ headOut = Undef
    /\ countOut = [set |-> FALSE, n |-> 0]
    /\ chart = NoChart
    /\ reads = 0

SpecFair == InitFair /\ [][Next]_vars /\ WF_vars(Next)

SpecEitherOrder == InitEitherOrder /\ [][Next]_vars

----------------------------------------------------------------------------
(* Vocabulary of the properties *)

Headers == {HeaderLabel, HeaderHIVActive, HeaderNoLabel}

(* Position of a statement in the running notebook. *)
Pos(stmt) == CHOOSE k \in 1..Len(Program(variant)) : Program(variant)[k] = stmt

(* pd.read_csv has returned a table. *)
Loaded == pc > Pos("read_csv")

(* The file exists and its first line is a header row. *)
WellFormedFile ==
    /\ fs.exists
    /\ Len(fs.lines) > 0
    /\ Head(fs.lines) \in Headers

(* The file exists and has no header row: it is empty or starts with a data row. *)
HeaderMissing ==
    /\ fs.exists
    /\ (Len(fs.lines) = 0 \/ Head(fs.lines) \in DataRows)

(* The file has a header row, without the label column this notebook uses. *)
LacksLabel ==
    /\ WellFormedFile
    /\ PlotColumn(variant) \notin Range(Head(fs.lines))

(* The first statement that looks the label column up. *)
FirstUse == IF variant = "named" THEN "count" ELSE "countplot"
FirstUseError == IF variant = "named" THEN "KeyError" ELSE "ValueError"

(* The text a value is written as. *)
Render(v) == IF v.t = "int" THEN ToString(v.i) ELSE v.s

(* The rows of df holding v in column col. *)
Matching(df, col, v) ==
    {i \in 1..Len(df.rows) :
        \E j \in 1..Len(df.columns) :
            /\ df.columns[j] = col
            /\ df.rows[i][j] = v}

MatchValues ==
    {IntV(0), IntV(1), IntV(2), StrV("1"), StrV("CI"), StrV("CA"), StrV("CM"), StrV("CCO")}

----------------------------------------------------------------------------
(* C1: a file with a header row and N data rows loads without error into a *)
(* table of exactly N records whose column names are the header's.         *)
C1_LoadShape ==
    WellFormedFile =>
        /\ (pc = Pos("read_csv") => err = "none")
        /\ (Loaded =>
              /\ hiv.defined
              /\ Len(hiv.rows) = Len(fs.lines) - 1
              /\ hiv.columns = Head(fs.lines))

C1_Witness ==
    /\ WellFormedFile
    /\ Loaded
    /\ Len(fs.lines) = 4
    /\ Len(hiv.rows) = 3

(* C2: the count query returns exactly the number of rows whose value in   *)
(* the column equals the match value, for the notebook's query (Label == 1)*)
(* and for every column and match value of every table the load returns   *)
(* (each table is looked at in the state the load leaves).                 *)
C2_CountExact ==
    /\ (countOut.set => countOut.n = Cardinality(Matching(hiv, CountColumn, CountValue)))
    /\ (hiv.defined /\ At("head") =>
          \A col \in Range(hiv.columns) : \A v \in MatchValues :
              len(BoolIndex(hiv, EqMask(hiv, col, v))) = Cardinality(Matching(hiv, col, v)))

C2_Witness ==
    /\ countOut.set
    /\ Len(hiv.rows) = 5
    /\ countOut.n = 2

(* C3: when the path does not exist the load ends in FileNotFoundError and *)
(* no table is produced; the run goes no further.                          *)
C3_MissingFile ==
    ~fs.exists =>
        /\ pc <= Pos("read_csv")
        /\ ~hiv.defined
        /\ err \in {"none", "FileNotFoundError"}
        /\ (pc = Pos("read_csv") /\ err = "none" => ENABLED ReadCsvStmt)

C3_Witness ==
    /\ ~fs.exists
    /\ err = "FileNotFoundError"
    /\ ~hiv.defined

(* C4 as stated: a file whose header lacks the label column makes the load *)
(* itself fail, so that no table exists after it.                          *)
C4_AsStated ==
    LacksLabel =>
        /\ pc <= Pos("read_csv")
        /\ ~hiv.defined

(* C4, amended: such a file loads without error into a table with the      *)
(* header's columns; the error is raised by the first statement that looks *)
(* the column up (KeyError from the count query of the named notebook,     *)
(* ValueError from the count plot of the unnamed one), which ends the run  *)
(* before any count or chart is produced.                                  *)
C4_ErrorAtFirstUse ==
    LacksLabel =>
        /\ (pc = Pos("read_csv") => err = "none")
        /\ (Loaded =>
              /\ hiv.defined
              /\ hiv.columns = Head(fs.lines))
        /\ pc <= Pos(FirstUse)
        /\ (err # "none" => pc = Pos(FirstUse) /\ err = FirstUseError)
        /\ (pc = Pos(FirstUse) /\ err = "none" => ENABLED Next)
        /\ ~countOut.set
        /\ ~chart.drawn

C4_Witness ==
    /\ LacksLabel
    /\ hiv.defined
    /\ Len(hiv.rows) = 2
    /\ headOut.defined
    /\ err = "KeyError"

(* C5 as stated: a file without a header row fails to load and produces no *)
(* table.                                                                  *)
C5_AsStated ==
    HeaderMissing =>
        /\ pc <= Pos("read_csv")
        /\ ~hiv.defined

(* C5, amended: a file without any line fails to load with EmptyDataError  *)
(* and produces no table; a file that starts with a data row loads without *)
(* error, its first row taken as the column names and the remaining rows   *)
(* as the records.                                                         *)
C5_HeaderInferred ==
    /\ (fs.exists /\ Len(fs.lines) = 0 =>
          /\ pc <= Pos("read_csv")
          /\ ~hiv.defined
          /\ err \in {"none", "EmptyDataError"}
          /\ (pc = Pos("read_csv") /\ err = "none" => ENABLED ReadCsvStmt))
    /\ (fs.exists /\ Len(fs.lines) > 0 /\ Head(fs.lines) \in DataRows =>
          /\ (pc = Pos("read_csv") => err = "none")
          /\ (Loaded =>
                /\ hiv.defined
                /\ hiv.columns = Head(fs.lines)
                /\ Len(hiv.rows) = Len(fs.lines) - 1))

C5_Witness ==
    /\ HeaderMissing
    /\ Len(fs.lines) = 3
    /\ hiv.defined
    /\ hiv.columns \in DataRows
    /\ Len(hiv.rows) = 2

(* The label fields of the file's data rows and the labels of the table.   *)
FileLabels ==
    {fs.lines[k][j] : k \in 2..Len(fs.lines),
                      j \in {c \in 1..Len(Head(fs.lines)) :
                                Head(fs.lines)[c] = PlotColumn(variant)}}

TableLabels ==
    {hiv.rows[i][j] : i \in 1..Len(hiv.rows),
                      j \in {c \in 1..Len(hiv.columns) :
                                hiv.columns[c] = PlotColumn(variant)}}

(* C6 as stated: every label of every loaded table is 0 or 1.              *)
C6_AsStated ==
    hiv.defined => TableLabels \subseteq {IntV(0), IntV(1)}

(* C6, amended: the loader does not validate the labels; the labels of the *)
(* table are all 0 or 1 exactly when the label fields of the file are all  *)
(* "0" or "1", and any other integer label of the file is loaded as it is. *)
C6_LabelsAsInFile ==
    hiv.defined /\ HasColumn(hiv, PlotColumn(variant)) =>
        /\ (TableLabels \subseteq {IntV(0), IntV(1)}) <=> (FileLabels \subseteq {"0", "1"})
        /\ {Render(v) : v \in TableLabels} = FileLabels

C6_Witness ==
    /\ hiv.defined
    /\ HasColumn(hiv, PlotColumn(variant))
    /\ IntV(2) \in TableLabels
    /\ IntV(1) \in TableLabels

(* The values occurring in column col of df. *)
ValuesOf(df, col) ==
    {df.rows[i][j] : i \in 1..Len(df.rows),
                     j \in {c \in 1..Len(df.columns) : df.columns[c] = col}}

(* C7: the count plot has exactly one bar per distinct value of the column,*)
(* each as high as the number of rows holding that value; a column with    *)
(* two categories gives exactly two bars.                                  *)
C7_OneBarPerCategory ==
    chart.drawn =>
        LET cats == ValuesOf(hiv, PlotColumn(variant))
        IN /\ Len(chart.bars) = Cardinality(cats)
           /\ {chart.bars[k].cat : k \in 1..Len(chart.bars)} = cats
           /\ \A k \in 1..Len(chart.bars) :
                 chart.bars[k].height =
                     Cardinality(Matching(hiv, PlotColumn(variant), chart.bars[k].cat))
           /\ (Cardinality(cats) = 2 => Len(chart.bars) = 2)

C7_Witness ==
    /\ chart.drawn
    /\ Len(hiv.rows) = 5
    /\ Len(chart.bars) = 2
    /\ chart.bars[1] = [cat |-> IntV(0), height |-> 3]
    /\ chart.bars[2] = [cat |-> IntV(1), height |-> 2]

(* C8: the table keeps the file's row order and values: the i-th record is *)
(* the i-th data row of the file, field by field as written in the file.   *)
C8_RowOrder ==
    WellFormedFile /\ Loaded =>
        /\ Len(hiv.rows) = Len(fs.lines) - 1
        /\ \A i \in 1..Len(hiv.rows) :
              /\ Len(hiv.rows[i]) = Len(fs.lines[i + 1])
              /\ \A j \in 1..Len(hiv.rows[i]) :
                    Render(hiv.rows[i][j]) = fs.lines[i + 1][j]

C8_Witness ==
    /\ WellFormedFile
    /\ Loaded
    /\ Len(hiv.rows) = 3
    /\ hiv.rows[1] # hiv.rows[2]
    /\ hiv.rows[2] # hiv.rows[3]
    /\ hiv.rows[1] # hiv.rows[3]
    /\ Head(fs.lines) = HeaderLabel

(* C9: the table is written once, by the load, and never changes after:    *)
(* only the read_csv statement assigns hiv, and no step changes a defined  *)
(* hiv (its rows, values or columns).                                      *)
C9_WriteOnce ==
    [][/\ (hiv' # hiv => At("read_csv") /\ ~hiv.defined)
       /\ (hiv.defined => hiv' = hiv)]_vars

C9_Witness ==
    /\ Done
    /\ hiv.defined
    /\ Len(hiv.rows) = 6
    /\ headOut.defined
    /\ Len(headOut.rows) = 5
    /\ chart.shown

(* C10: the count query has no side effect: the step that evaluates it     *)
(* changes nothing but its own output (and the position), and its result   *)
(* is determined by the table, never changing once produced.               *)
C10_CountPure ==
    [][/\ (At("count") => UNCHANGED <<hiv, headOut, chart, fs, variant>>)
       /\ (countOut' # countOut =>
             /\ At("count")
             /\ countOut'.set
             /\ countOut'.n = Cardinality(Matching(hiv', CountColumn, CountValue)))]_vars

C10_Witness ==
    /\ countOut.set
    /\ hiv.defined
    /\ countOut.n = 2
    /\ Len(hiv.rows) = 4
    /\ headOut = hiv
    /\ ~chart.drawn

(* C11: a failed load is fatal and leaves nothing behind: when the file is *)
(* missing or has no line the run never passes the load, no table (not     *)
(* even a partial one), preview, count or chart exists, and after any      *)
(* error no further statement runs.                                        *)
C11_LoadFailureFatal ==
    /\ (~fs.exists \/ Len(fs.lines) = 0 => pc <= Pos("read_csv"))
    /\ (err \in {"FileNotFoundError", "EmptyDataError"} =>
          /\ pc = Pos("read_csv")
          /\ hiv = Undef
          /\ headOut = Undef
          /\ ~countOut.set
          /\ chart = NoChart)
    /\ (err # "none" => ~ENABLED Next)

C11_Witness ==
    /\ fs.exists
    /\ err = "EmptyDataError"
    /\ reads = 1
    /\ hiv = Undef

(* How many data rows of the file carry the label l (third field). *)
FileLabelCount(l) ==
    Cardinality({k \in 2..Len(fs.lines) : fs.lines[k][3] = l})

(* The bars of the chart, read off the rows of the file alone: one bar per *)
(* label written in the file, in ascending order, as high as the number of *)
(* rows carrying it.                                                       *)
BarsMatchFile ==
    /\ \A k \in 1..Len(chart.bars) :
          /\ chart.bars[k].cat.t = "int"
          /\ chart.bars[k].height = FileLabelCount(ToString(chart.bars[k].cat.i))
          /\ \A m \in 1..(k - 1) : chart.bars[m].cat.i < chart.bars[k].cat.i
    /\ \A l \in {"0", "1", "2"} :
          FileLabelCount(l) > 0 =>
              \E k \in 1..Len(chart.bars) : ToString(chart.bars[k].cat.i) = l

(* Each notebook is given a file whose label column has the name it plots. *)
ConfiguredToMatch ==
    /\ fs.exists
    /\ Len(fs.lines) > 0
    /\ \/ variant = "named" /\ Head(fs.lines) = HeaderLabel
       \/ variant = "unnamed" /\ Head(fs.lines) = HeaderHIVActive

(* C12: the name of the label column is configuration: given a file whose  *)
(* label column has the name the notebook plots, either notebook runs      *)
(* without error and its chart is determined by the rows alone (the same   *)
(* categories and heights whatever the column is called).                  *)
C12_NameIsConfiguration ==
    ConfiguredToMatch =>
        /\ err = "none"
        /\ (pc > Pos("countplot") => chart.drawn /\ BarsMatchFile)

C12_Witness ==
    /\ ConfiguredToMatch
    /\ variant = "unnamed"
    /\ chart.shown
    /\ Len(fs.lines) = 6
    /\ Len(chart.bars) = 2
    /\ chart.bars[1].height = 2
    /\ chart.bars[2].height = 3

(* C13: the count and the chart are independent consumers of the table:    *)
(* each is produced only once the table is loaded, and whichever of the    *)
(* two cells runs first, the count and the chart are the same (both are    *)
(* determined by the rows of the file).                                    *)
C13_EitherOrder ==
    /\ (countOut.set \/ chart.drawn => hiv.defined)
    /\ (fs.exists /\ Len(fs.lines) > 0 /\ Head(fs.lines) = HeaderLabel =>
          /\ err = "none"
          /\ (countOut.set => countOut.n = FileLabelCount("1"))
          /\ (chart.drawn => BarsMatchFile)
          /\ (Done => countOut.set /\ chart.shown))

C13_Witness ==
    /\ variant = "named_plot_first"
    /\ Done
    /\ Len(hiv.rows) = 5
    /\ countOut.set
    /\ countOut.n = 2
    /\ Len(chart.bars) = 2
    /\ chart.bars[1].height = 3

(* C14: with the file the notebooks show (header Smiles, Experimental      *)
(* activity, Label), no statement after the load fails on an unknown       *)
(* column, in either notebook.                                             *)
C14_ColumnsKnown ==
    fs.exists /\ Len(fs.lines) > 0 /\ Head(fs.lines) = HeaderLabel =>
        err \notin {"KeyError", "ValueError"}

(* The label is the binary collapse of the activity: 0 exactly for CI, 1   *)
(* exactly for CA or CM; of a record of the table, and of a row of text.   *)
CollapseHolds(rec) ==
    /\ (rec[3] = IntV(0) <=> rec[2] = StrV("CI"))
    /\ (rec[3] = IntV(1) <=> rec[2] \in {StrV("CA"), StrV("CM")})

CollapseWritten(line) ==
    /\ (line[3] = "0" <=> line[2] = "CI")
    /\ (line[3] = "1" <=> line[2] \in {"CA", "CM"})

FileRows == Len(fs.lines) - 1

(* C16: the load is blocking and atomic for its consumers: up to the load  *)
(* there is no table and no consumer has produced anything; past it, where *)
(* the preview, the count and the plot run, the table holds all the rows   *)
(* of the file, never a prefix of them.                                    *)
C16_AllRowsOrNone ==
    /\ (pc <= Pos("read_csv") =>
          /\ hiv = Undef
          /\ headOut = Undef
          /\ ~countOut.set
          /\ ~chart.drawn)
    /\ (pc > Pos("read_csv") =>
          /\ hiv.defined
          /\ Len(hiv.rows) = FileRows)
    /\ (At("head") \/ At("count") \/ At("countplot") => Len(hiv.rows) = FileRows)
    /\ (headOut.defined =>
          Len(headOut.rows) = IF FileRows < 5 THEN FileRows ELSE 5)

C16_Witness ==
    /\ At("count")
    /\ FileRows = 6
    /\ Len(hiv.rows) = 6
    /\ Len(headOut.rows) = 5

(* C17: the file is opened at most once in a run and a failed load is not  *)
(* tried again: the first failing read raises the error and ends the run.  *)
C17_NoRetry ==
    /\ reads <= 1
    /\ (reads = 0 <=> pc <= Pos("read_csv") /\ err = "none")
    /\ (err \in {"FileNotFoundError", "EmptyDataError"} =>
          /\ reads = 1
          /\ ~ENABLED ReadCsvStmt)

C17_Witness ==
    /\ reads = 1
    /\ err = "FileNotFoundError"
    /\ pc = Pos("read_csv")

(* C18: the table has one writer, the load, and every read of it comes     *)
(* after that write: only the read_csv statement changes hiv, it does so   *)
(* once, and each statement that reads hiv runs with the table loaded and  *)
(* leaves it as it is.                                                     *)
C18_ReadsAfterWrite ==
    [][/\ (hiv' # hiv => At("read_csv") /\ reads = 0 /\ reads' = 1)
       /\ (At("head") \/ At("count") \/ At("countplot") =>
             /\ hiv.defined
             /\ reads = 1
             /\ hiv' = hiv
             /\ reads' = reads)]_vars

C18_Witness ==
    /\ Done
    /\ variant = "named"
    /\ reads = 1
    /\ Len(hiv.rows) = 2
    /\ countOut.set
    /\ chart.shown

(* C19: when the chart is shown its y-axis label is "Num of molecules" and *)
(* its x-axis label "Class 0: inactives and Class 1: Actives"; the labels  *)
(* are in place when plt.show runs, and plt.show is the last statement.    *)
C19_AxisLabels ==
    /\ (At("show") \/ chart.shown =>
          /\ chart.drawn
          /\ chart.ylabel = "Num of molecules"
          /\ chart.xlabel = "Class 0: inactives and Class 1: Actives")
    /\ (At("show") => pc = Len(Program(variant)))
    /\ (chart.shown => Done)

C19_Witness ==
    /\ chart.shown
    /\ variant = "unnamed"
    /\ Len(chart.bars) = 3
    /\ chart.ylabel = "Num of molecules"

(* C20: hiv.head() returns the first min(5, N) records of the table, in    *)
(* order and with all its columns, and leaves the table unchanged.         *)
C20_HeadPreview ==
    [][At("head") =>
          /\ hiv' = hiv
          /\ headOut'.defined
          /\ headOut'.columns = hiv.columns
          /\ Len(headOut'.rows) = (IF Len(hiv.rows) < 5 THEN Len(hiv.rows) ELSE 5)
          /\ \A i \in 1..Len(headOut'.rows) : headOut'.rows[i] = hiv.rows[i]]_vars

C20_Witness ==
    /\ At("countplot")
    /\ variant = "unnamed"
    /\ Len(hiv.rows) = 6
    /\ Len(headOut.rows) = 5
    /\ hiv.rows[6] # hiv.rows[1]
    /\ headOut.columns = HeaderHIVActive

(* len(df[df[col] == v]) for the table hiv. *)
CountOf(col, v) == len(BoolIndex(hiv, EqMask(hiv, col, v)))

RECURSIVE SumCounts(_, _)
SumCounts(col, values) ==
    IF values = {} THEN 0
    ELSE LET v == CHOOSE x \in values : TRUE
         IN CountOf(col, v) + SumCounts(col, values \ {v})

(* C21: a count lies between 0 and the number N of records, the counts of  *)
(* the distinct values of a column add up to N, and when every label is 0  *)
(* or 1 the counts for label 0 and label 1 add up to N (every table is     *)
(* looked at in the state the load leaves).                                *)
C21_CountsPartition ==
    /\ (countOut.set => countOut.n \in 0..Len(hiv.rows))
    /\ (hiv.defined /\ At("head") =>
          \A col \in Range(hiv.columns) :
              /\ \A v \in MatchValues : CountOf(col, v) \in 0..Len(hiv.rows)
              /\ SumCounts(col, ValuesOf(hiv, col)) = Len(hiv.rows))
    /\ (/\ hiv.defined
        /\ At("head")
        /\ HasColumn(hiv, CountColumn)
        /\ ValuesOf(hiv, CountColumn) \subseteq {IntV(0), IntV(1)}
        => CountOf(CountColumn, IntV(0)) + CountOf(CountColumn, IntV(1)) = Len(hiv.rows))

C21_Witness ==
    /\ countOut.set
    /\ Len(hiv.rows) = 4
    /\ ValuesOf(hiv, CountColumn) = {IntV(0), IntV(1)}
    /\ countOut.n = 3

(* C22: the count query and the count plot agree on every table: each bar  *)
(* is as high as the count query's result for the bar's value, a value     *)
(* without a bar has count 0, and the count the notebook displays for      *)
(* label 1 is the height of the bar for label 1 (0 when there is no such   *)
(* bar), whichever of the two cells ran first.                             *)
C22_CountAgreesWithBars ==
    /\ (chart.drawn =>
          /\ \A k \in 1..Len(chart.bars) :
                chart.bars[k].height = CountOf(PlotColumn(variant), chart.bars[k].cat)
          /\ \A v \in MatchValues :
                (\A k \in 1..Len(chart.bars) : chart.bars[k].cat # v)
                    => CountOf(PlotColumn(variant), v) = 0)
    /\ (chart.drawn /\ countOut.set /\ PlotColumn(variant) = CountColumn =>
          /\ \A k \in 1..Len(chart.bars) :
                chart.bars[k].cat = CountValue => chart.bars[k].height = countOut.n
          /\ (\A k \in 1..Len(chart.bars) : chart.bars[k].cat # CountValue)
                => countOut.n = 0)

C22_Witness ==
    /\ Done
    /\ variant = "named"
    /\ countOut.set
    /\ countOut.n = 2
    /\ Len(chart.bars) = 3
    /\ chart.bars[2] = [cat |-> IntV(1), height |-> 2]
    /\ chart.bars[3].height = 1

RECURSIVE SumHeights(_)
SumHeights(bars) ==
    IF bars = <<>> THEN 0
    ELSE Head(bars).height + SumHeights(Tail(bars))

(* C23: the heights of the bars of the count plot add up to N, the number  *)
(* of records of the loaded table, which is the number of data rows of the *)
(* file (every record of a table of the model has a value in the column).  *)
C23_BarsSumToN ==
    chart.drawn =>
        /\ SumHeights(chart.bars) = Len(hiv.rows)
        /\ SumHeights(chart.bars) = FileRows

C23_Witness ==
    /\ At("ylabel")
    /\ Len(hiv.rows) = 6
    /\ Len(chart.bars) = 3
    /\ SumHeights(chart.bars) = 6
    /\ chart.bars[1].height = 1

(* The statement stmt of the running notebook has completed. *)
Past(stmt) ==
    /\ stmt \in Range(Program(variant))
    /\ pc > Pos(stmt)

Terminated == Done \/ err \in Errors

(* C25: every run ends, either with load, preview, count and plot all      *)
(* completed or with the exception of the statement that failed; every     *)
(* step completes the current statement or raises in it, so that no        *)
(* statement is repeated or waited on, and a run that is over stays over.  *)
C25_Terminates ==
    /\ <>Terminated
    /\ [][/\ ~Terminated
          /\ \/ pc' = pc + 1 /\ err' = "none"
             \/ pc' = pc /\ err' \in Errors]_vars

C25_Witness ==
    /\ Terminated
    /\ Done
    /\ variant = "named"
    /\ reads = 1
    /\ headOut.defined
    /\ countOut.set
    /\ countOut.n = 0
    /\ Len(hiv.rows) = 2
    /\ chart.shown

====
